---- MODULE Spec2Model ----
(***************************************************************************)
(* Turn engine of the circular-track race: the board (cell occupancy,      *)
(* step totals, forced-stack records, win detection) and the game loop,    *)
(* in its two variants:                                                    *)
(*   "full"  src/FullCharacters.py  tokens G..L, 22 cells, win by landing  *)
(*           exactly on cell 0, forced-stack records, one-shot flags;      *)
(*   "main"  src/main.py            tokens A..F, 23 cells, win by          *)
(*           cumulative steps >= GRID_COUNT.                               *)
(* Python lists are sequences (index 1 = bottom of a stack), None is the   *)
(* string "None", a missing position is NoPos.                             *)
(***************************************************************************)
EXTENDS Integers, Sequences, FiniteSets, TLC

VARIABLES
    variant,        \* which source file runs: "full" or "main"
    positions,      \* CircularBoard.positions: cell index -> stack (sequence of tokens)
    winner,         \* CircularBoard.winner: a token, or None
    total_steps,    \* CircularBoard.total_steps: token -> cumulative steps
    active_stacks,  \* CircularBoard.active_stacks: cell -> recorded group (full only)
    skill_states,   \* CircularBoard.skill_states: token -> one-shot flag (full only)
    last,           \* history: the last board call, its arguments (and the roll of
                    \* the turn that made it) and the board before it
    ncalls,         \* history: number of board calls made so far (SpecBoard, SpecPlace:
                    \* bounded by MaxCalls); number of turns processed in the current
                    \* game (SpecGame: counted up to TurnCap)
    pc,             \* position of run_game: "idle", "while", "for", "done"
    base_order,     \* the last random.sample(PLAYERS, len(PLAYERS)) (main: initial_order)
    current_order,  \* run_game's current_order
    i,              \* index (1-based) of the for loop over current_order
    turns,          \* history: the tokens whose turn was processed in this round
    draws,          \* the pseudorandom source: the rule its draws follow in this run
    win_counts,     \* GameVisualization.win_counts
    total_games     \* GameVisualization.total_games

board_vars == <<positions, winner, total_steps, active_stacks, skill_states>>
game_vars == <<pc, base_order, current_order, i, turns, draws, win_counts, total_games>>
vars == <<variant, positions, winner, total_steps, active_stacks, skill_states, last, ncalls,
          pc, base_order, current_order, i, turns, draws, win_counts, total_games>>

----------------------------------------------------------------------------
(* Program constants *)

GRID_COUNT_FULL == 22
GRID_COUNT_MAIN == 23
GRID_COUNT == IF variant = "full" THEN GRID_COUNT_FULL ELSE GRID_COUNT_MAIN

PLAYERS_FULL == <<"G", "H", "I", "J", "K", "L">>
PLAYERS_MAIN == <<"A", "B", "C", "D", "E", "F">>
PLAYERS == IF variant = "full" THEN PLAYERS_FULL ELSE PLAYERS_MAIN

\* PLAYER_SKILLS[p]['type']
SkillType(p) ==
    CASE p = "A" -> "position_bonus"
      [] p = "B" -> "double_chance"
      [] p = "C" -> "late_move"
      [] p = "D" -> "elevate"
      [] p = "E" -> "solo_move"
      [] p = "F" -> "dice_2d3"
      [] p = "G" -> "last_move_bonus"
      [] p = "H" -> "first_move_bonus"
      [] p = "I" -> "stack_leader"
      [] p = "J" -> "stack_dice"
      [] p = "K" -> "catch_up"
      [] p = "L" -> "half_chance"

None == "None"
NoPos == -1

----------------------------------------------------------------------------
(* Bounds of the model *)

\* board calls explored from the initial placement
MaxCalls == 3
\* number of turn orders random.sample may return (rotations of PLAYERS)
NumOrders == 2
\* total_steps is tracked exactly up to this value in the "full" variant,
\* where it is only written, never read
StepCap == 100
\* games auto_simulate runs (max_games)
MaxGames == 1
\* the turns of a game are counted exactly up to this value
TurnCap == 140

----------------------------------------------------------------------------
(* Python list helpers *)

Range(s) == {s[k] : k \in DOMAIN s}

\* x in s
Contains(s, x) == \E k \in DOMAIN s : s[k] = x

\* s.index(x): first index (1-based) of x in s
IndexOf(s, x) == CHOOSE k \in DOMAIN s : s[k] = x /\ \A j \in 1..(k - 1) : s[j] # x

\* [p for p in s if p not in group]
Without(s, group) == SelectSeq(s, LAMBDA x : ~Contains(group, x))

\* list(reversed(s))
Reversed(s) == [k \in 1..Len(s) |-> s[Len(s) + 1 - k]]

Cells == 0..(GRID_COUNT - 1)

SetMin(S) == CHOOSE x \in S : \A y \in S : x <= y
SetMax(S) == CHOOSE x \in S : \A y \in S : x >= y

Min(a, b) == IF a < b THEN a ELSE b

\* the board as one value
Board == [positions |-> positions, winner |-> winner, total_steps |-> total_steps,
          active_stacks |-> active_stacks, skill_states |-> skill_states]

----------------------------------------------------------------------------
(* CircularBoard *)

\* a reset that leaves the one-shot flags set
reset_flags_set ==
    [positions |-> [c \in Cells |-> <<>>],
     winner |-> None,
     total_steps |-> [p \in Range(PLAYERS) |-> 0],
     active_stacks |-> <<>>,
     skill_states |-> IF variant = "full" THEN [p \in Range(PLAYERS) |-> TRUE] ELSE <<>>]

\* CircularBoard.reset: every field is assigned afresh
reset ==
    [positions |-> [c \in Cells |-> <<>>],
     winner |-> None,
     total_steps |-> [p \in Range(PLAYERS) |-> 0],
     active_stacks |-> <<>>,
     skill_states |-> IF variant = "full" THEN [p \in Range(PLAYERS) |-> FALSE] ELSE <<>>]

add_player(pos, player, position) == [pos EXCEPT ![position] = Append(@, player)]

\* the first cell, scanning from index 0, whose stack holds the player
find_player_position(pos, player) ==
    LET found == {c \in DOMAIN pos : Contains(pos[c], player)}
    IN  IF found = {} THEN NoPos ELSE SetMin(found)

get_player_stack_size(pos, player) ==
    LET idx == find_player_position(pos, player)
    IN  IF idx # NoPos THEN Len(pos[idx]) ELSE 0

\* is_last_place comparing with > instead of >=
is_last_place_strict(pos, player) ==
    LET player_pos == find_player_position(pos, player)
    IN  \A q \in Range(PLAYERS) \ {player} :
            LET p == find_player_position(pos, q)
            IN  p # NoPos => p > player_pos

\* all(p >= player_pos for p in all_pos if p is not None); the player is on the board
is_last_place(pos, player) ==
    LET player_pos == find_player_position(pos, player)
    IN  \A q \in Range(PLAYERS) \ {player} :
            LET p == find_player_position(pos, q)
            IN  p # NoPos => p >= player_pos

\* a step total increased by steps (FullCharacters.py only writes the totals, and
\* the model stops counting them at StepCap)
bump(total, steps) == IF variant = "full" THEN Min(total + steps, StepCap) ELSE total + steps

\* the steps added to the total of every token instead of the mover's
add_steps_all(ts, player, steps) == [p \in DOMAIN ts |-> bump(ts[p], steps)]

\* total_steps[player] += steps
add_steps(ts, player, steps) == [ts EXCEPT ![player] = bump(@, steps)]

\* move_stack = [player] if is_solo else current_stack[player_index:]
move_stack(current_stack, player_index, is_solo) ==
    IF is_solo THEN <<current_stack[player_index]>>
    ELSE SubSeq(current_stack, player_index, Len(current_stack))

\* perform_move deleting only the acting token from the source cell while the
\* whole sub-stack is appended to the destination
perform_move_del_one(pos, player, current_idx, new_idx, is_solo) ==
    LET between == [from \in Cells, to \in Cells |->
            LET current_stack == pos[from]
                player_index == IndexOf(current_stack, player)
                ms == move_stack(current_stack, player_index, is_solo)
                deleted == SubSeq(current_stack, 1, player_index - 1)
                           \o SubSeq(current_stack, player_index + 1, Len(current_stack))
                pos1 == [pos EXCEPT ![from] = deleted]
            IN  [pos1 EXCEPT ![to] = @ \o ms]]
    IN  between[current_idx, new_idx]

\* del current_stack[player_index:player_index + len(move_stack)];
\* self.positions[new_idx].extend(move_stack)
perform_move(pos, player, current_idx, new_idx, is_solo) ==
    LET between == [from \in Cells, to \in Cells |->
            LET current_stack == pos[from]
                player_index == IndexOf(current_stack, player)
                ms == move_stack(current_stack, player_index, is_solo)
                deleted == SubSeq(current_stack, 1, player_index - 1)
                           \o SubSeq(current_stack, player_index + Len(ms), Len(current_stack))
                pos1 == [pos EXCEPT ![from] = deleted]
            IN  [pos1 EXCEPT ![to] = @ \o ms]]
    IN  between[current_idx, new_idx]

\* the trigger condition of _check_stack_skills
stack_skill_fires(b, player, new_idx) ==
    /\ SkillType(player) = "stack_leader"
    /\ ~b.skill_states[player]
    /\ Len(b.positions[new_idx]) > 1

\* the record created without setting the flag of the stack leader
check_stack_skills_rearm(b, player, new_idx) ==
    IF stack_skill_fires(b, player, new_idx)
    THEN [b EXCEPT !.active_stacks =
                       [c \in (DOMAIN b.active_stacks) \cup {new_idx} |->
                           IF c = new_idx THEN b.positions[new_idx] ELSE b.active_stacks[c]]]
    ELSE b

check_stack_skills(b, player, new_idx) ==
    IF stack_skill_fires(b, player, new_idx)
    THEN [b EXCEPT !.active_stacks =
                       [c \in (DOMAIN b.active_stacks) \cup {new_idx} |->
                           IF c = new_idx THEN b.positions[new_idx] ELSE b.active_stacks[c]],
                   !.skill_states[player] = TRUE]
    ELSE b

check_victory(b, player) ==
    IF find_player_position(b.positions, player) = 0
    THEN [b EXCEPT !.winner = player]
    ELSE b

\* the guard that never sends a call to the forced move
forced_applies_never(b, player) == FALSE

\* the guard of _handle_forced_stack_move
forced_applies(b, player) ==
    LET current_idx == find_player_position(b.positions, player)
    IN  /\ current_idx \in DOMAIN b.active_stacks
        /\ Contains(b.active_stacks[current_idx], player)

\* the loop over the group without its break: every member gets the steps and the
\* last member found in cell 0 is the winner
forced_steps_no_break(b, group, steps) ==
    LET wins == {k \in DOMAIN group :
                     \E moved \in {b} : check_victory(moved, group[k]).winner = group[k]}
        turns_of(p) == Cardinality({k \in DOMAIN group : group[k] = p})
    IN  [b EXCEPT !.total_steps = [p \in DOMAIN @ |-> IF turns_of(p) = 0 THEN @[p]
                                                     ELSE bump(@[p], turns_of(p) * steps)],
                  !.winner = IF wins = {} THEN @ ELSE group[SetMax(wins)]]

\* for p in group: total_steps[p] += steps; if _check_victory(p): break
\* The loop does not move a token, so it breaks at the first member found in cell 0
\* and has added steps to every member up to that one.
forced_steps(b, group, steps) ==
    LET wins == {k \in DOMAIN group :
                     \E moved \in {b} : check_victory(moved, group[k]).winner = group[k]}
        n == IF wins = {} THEN Len(group) ELSE SetMin(wins)
        turns_of(p) == Cardinality({k \in 1..n : group[k] = p})
    IN  [b EXCEPT !.total_steps = [p \in DOMAIN @ |-> IF turns_of(p) = 0 THEN @[p]
                                                     ELSE bump(@[p], turns_of(p) * steps)],
                  !.winner = IF wins = {} THEN @ ELSE group[n]]

\* the forced move reading the record without popping it
handle_forced_stack_move_keep(b, player, steps) ==
    LET current_idx == find_player_position(b.positions, player)
        group == b.active_stacks[current_idx]
        new_idx == (current_idx + steps) % GRID_COUNT
        pos1 == [b.positions EXCEPT ![current_idx] = Without(@, group)]
        pos2 == [pos1 EXCEPT ![new_idx] = @ \o group]
        b1 == [b EXCEPT !.positions = pos2]
    IN  forced_steps(b1, group, steps)

handle_forced_stack_move(b, player, steps) ==
    LET current_idx == find_player_position(b.positions, player)
        group == b.active_stacks[current_idx]
        new_idx == (current_idx + steps) % GRID_COUNT
        popped == [c \in (DOMAIN b.active_stacks) \ {current_idx} |-> b.active_stacks[c]]
        pos1 == [b.positions EXCEPT ![current_idx] = Without(@, group)]
        pos2 == [pos1 EXCEPT ![new_idx] = @ \o group]
        b1 == [b EXCEPT !.active_stacks = popped, !.positions = pos2]
    IN  forced_steps(b1, group, steps)

\* move_player without its first guard
frozen_never(b) == FALSE

\* if self.winner: return
frozen(b) == b.winner # None

\* move_player deciding the winner by the step total instead of the landing cell
move_player_full_by_steps(b, player, steps, is_solo) ==
    IF frozen(b) THEN b
    ELSE IF forced_applies(b, player) THEN handle_forced_stack_move(b, player, steps)
    ELSE LET current_idx == find_player_position(b.positions, player)
         IN  IF current_idx = NoPos THEN b
             ELSE LET new_idx == (current_idx + steps) % GRID_COUNT
                      b1 == [b EXCEPT !.total_steps = add_steps(@, player, steps),
                                      !.positions = perform_move(@, player, current_idx,
                                                                 new_idx, is_solo)]
                  IN  IF b1.total_steps[player] >= GRID_COUNT
                      THEN [b1 EXCEPT !.winner = player]
                      ELSE check_stack_skills(b1, player, new_idx)

\* FullCharacters.py CircularBoard.move_player
move_player_full(b, player, steps, is_solo) ==
    IF frozen(b) THEN b
    ELSE IF forced_applies(b, player) THEN handle_forced_stack_move(b, player, steps)
    ELSE LET current_idx == find_player_position(b.positions, player)
         IN  IF current_idx = NoPos THEN b
             ELSE LET new_idx == (current_idx + steps) % GRID_COUNT
                      b1 == [b EXCEPT !.total_steps = add_steps(@, player, steps),
                                      !.positions = perform_move(@, player, current_idx,
                                                                 new_idx, is_solo)]
                  IN  IF new_idx = 0 THEN [b1 EXCEPT !.winner = player]
                      ELSE check_stack_skills(b1, player, new_idx)

\* main.py move_player with the win test total_steps[player] > GRID_COUNT
move_player_main_over(b, player, steps, is_solo) ==
    IF frozen(b) THEN b
    ELSE LET current_idx == find_player_position(b.positions, player)
         IN  IF current_idx = NoPos THEN b
             ELSE LET b1 == [b EXCEPT !.total_steps = add_steps(@, player, steps)]
                  IN  IF b1.total_steps[player] > GRID_COUNT
                      THEN [b1 EXCEPT !.winner = player]
                      ELSE LET new_idx == (current_idx + steps) % GRID_COUNT
                           IN  [b1 EXCEPT !.positions = perform_move(@, player, current_idx,
                                                                     new_idx, is_solo)]

\* main.py CircularBoard.move_player
move_player_main(b, player, steps, is_solo) ==
    IF frozen(b) THEN b
    ELSE LET current_idx == find_player_position(b.positions, player)
         IN  IF current_idx = NoPos THEN b
             ELSE LET b1 == [b EXCEPT !.total_steps = add_steps(@, player, steps)]
                  IN  IF b1.total_steps[player] >= GRID_COUNT
                      THEN [b1 EXCEPT !.winner = player]
                      ELSE LET new_idx == (current_idx + steps) % GRID_COUNT
                           IN  [b1 EXCEPT !.positions = perform_move(@, player, current_idx,
                                                                     new_idx, is_solo)]

move_player(b, player, steps, is_solo) ==
    IF variant = "full" THEN move_player_full(b, player, steps, is_solo)
    ELSE move_player_main(b, player, steps, is_solo)

----------------------------------------------------------------------------
(* GameLogic.apply_post_skills / GameVisualization.apply_post_skills *)

\* stack.remove(player); stack.append(player)
elevate(stack, player) ==
    LET k == IndexOf(stack, player)
    IN  Append(SubSeq(stack, 1, k - 1) \o SubSeq(stack, k + 1, Len(stack)), player)

\* coin: the outcome of random.random() < skill['prob'] for the elevate skill
apply_post_skills(b, player, coin) ==
    LET idx == find_player_position(b.positions, player)
        b1 == IF /\ variant = "full"
                 /\ SkillType(player) = "catch_up"
                 /\ ~b.skill_states[player]
                 /\ is_last_place(b.positions, player)
              THEN [b EXCEPT !.skill_states[player] = TRUE]
              ELSE b
    IN  IF SkillType(player) = "elevate" /\ idx # NoPos /\ coin
        THEN [b1 EXCEPT !.positions[idx] = elevate(@, player)]
        ELSE b1

----------------------------------------------------------------------------
(* Turn orders and initial placement *)

\* the k-th rotation of a sequence
Rotate(s, k) == [j \in 1..Len(s) |-> s[((j - 1 + k) % Len(s)) + 1]]

\* the values random.sample(PLAYERS, len(PLAYERS)) is drawn from
Orders == {Rotate(PLAYERS, k) : k \in 0..(Min(NumOrders, Len(PLAYERS)) - 1)}

RECURSIVE place_all(_, _, _, _)
place_all(pos, order, k, cell) ==
    IF k > Len(order) THEN pos
    ELSE place_all(add_player(pos, order[k], cell), order, k + 1, cell)

\* FullCharacters.py: every token of reversed(sample) is added to cell 1
initialize_players_full(sample) ==
    place_all([c \in Cells |-> <<>>], Reversed(sample), 1, 1)

\* main.py: the fixed starting layout
initialize_players_main ==
    LET p0 == [c \in Cells |-> <<>>]
        p1 == add_player(p0, "A", 0)
        p2 == add_player(p1, "C", 22)
        p3 == add_player(p2, "B", 22)
        p4 == add_player(p3, "E", 21)
        p5 == add_player(p4, "D", 21)
    IN  add_player(p5, "F", 20)

\* run_game up to the game loop: board.reset() and initialize_players
new_game(sample) ==
    [reset EXCEPT !.positions = IF variant = "full"
                                THEN initialize_players_full(sample)
                                ELSE initialize_players_main]

----------------------------------------------------------------------------
(* The board driven call by call *)

\* random.random() is drawn in apply_post_skills only for the elevate skill
PostCoins(player) == IF SkillType(player) = "elevate" THEN BOOLEAN ELSE {FALSE}

\* the step values passed to move_player: a short step, the step that wraps a token
\* of cell 1 onto cell 0, and a full lap
StepVals == {1, GRID_COUNT - 1, GRID_COUNT}

\* the board specification makes no draw
NoDraws == [rule |-> <<>>, coin_pre |-> FALSE, coin_solo |-> FALSE, coin_post |-> FALSE,
            coin_defer |-> FALSE, order0 |-> <<>>, order |-> <<>>]

SetBoard(b) ==
    /\ positions' = b.positions
    /\ winner' = b.winner
    /\ total_steps' = b.total_steps
    /\ active_stacks' = b.active_stacks
    /\ skill_states' = b.skill_states

InitBoard ==
    /\ variant \in {"full", "main"}
    /\ \E sample \in Orders :
           /\ positions = new_game(sample).positions
           /\ winner = new_game(sample).winner
           /\ total_steps = new_game(sample).total_steps
           /\ active_stacks = new_game(sample).active_stacks
           /\ skill_states = new_game(sample).skill_states
    /\ last = [op |-> "init", player |-> None, steps |-> 0, dice |-> 0, is_solo |-> FALSE,
               pre |-> reset]
    /\ ncalls = 0
    /\ pc = "idle"
    /\ base_order = <<>>
    /\ current_order = <<>>
    /\ i = 0
    /\ turns = <<>>
    /\ draws = NoDraws
    /\ win_counts = [p \in Range(PLAYERS) |-> 0]
    /\ total_games = 0

\* a token with a colour and a skill that is not in PLAYERS: initialize_players
\* never places it, so a call that names it is a call for a token not on the board
NotPlaced == IF variant = "full" THEN {"A"} ELSE {}

MovePlayer ==
    /\ ncalls < MaxCalls
    /\ \E player \in Range(PLAYERS) \cup NotPlaced, steps \in StepVals, is_solo \in BOOLEAN :
           /\ SetBoard(move_player(Board, player, steps, is_solo))
           /\ last' = [op |-> "move", player |-> player, steps |-> steps,
                       dice |-> 0, is_solo |-> is_solo, pre |-> Board]
    /\ ncalls' = ncalls + 1
    /\ UNCHANGED <<variant, game_vars>>

ApplyPostSkills ==
    /\ ncalls < MaxCalls
    /\ \E player \in Range(PLAYERS) : \E coin \in PostCoins(player) :
           /\ SetBoard(apply_post_skills(Board, player, coin))
           /\ last' = [op |-> "post", player |-> player, steps |-> 0,
                       dice |-> 0, is_solo |-> coin, pre |-> Board]
    /\ ncalls' = ncalls + 1
    /\ UNCHANGED <<variant, game_vars>>

\* the next run_game: reset and placement, once the previous game has a winner
NewGame ==
    /\ ncalls < MaxCalls
    /\ winner # None
    /\ \E sample \in Orders : SetBoard(new_game(sample))
    /\ last' = [op |-> "reset", player |-> None, steps |-> 0, dice |-> 0, is_solo |-> FALSE,
                pre |-> Board]
    /\ ncalls' = ncalls + 1
    /\ UNCHANGED <<variant, game_vars>>

NextBoard == MovePlayer \/ ApplyPostSkills \/ NewGame

SpecBoard == InitBoard /\ [][NextBoard]_vars

----------------------------------------------------------------------------
(* The placement interface driven call by call: add_player called by any caller, *)
(* for any token, on a board that starts empty                                   *)

\* the position argument of add_player
PlaceCells == {0, 1, GRID_COUNT - 1}

InitPlace ==
    /\ variant \in {"full", "main"}
    /\ positions = reset.positions
    /\ winner = reset.winner
    /\ total_steps = reset.total_steps
    /\ active_stacks = reset.active_stacks
    /\ skill_states = reset.skill_states
    /\ last = [op |-> "init", player |-> None, steps |-> 0, dice |-> 0, is_solo |-> FALSE,
               pre |-> reset]
    /\ ncalls = 0
    /\ pc = "idle"
    /\ base_order = <<>>
    /\ current_order = <<>>
    /\ i = 0
    /\ turns = <<>>
    /\ draws = NoDraws
    /\ win_counts = [p \in Range(PLAYERS) |-> 0]
    /\ total_games = 0

AddPlayer ==
    /\ ncalls < MaxCalls
    /\ \E player \in Range(PLAYERS), position \in PlaceCells :
           /\ positions' = add_player(positions, player, position)
           /\ last' = [op |-> "add", player |-> player, steps |-> 0, dice |-> 0,
                       is_solo |-> FALSE, pre |-> Board]
    /\ ncalls' = ncalls + 1
    /\ UNCHANGED <<variant, winner, total_steps, active_stacks, skill_states, game_vars>>

NextPlace == AddPlayer

SpecPlace == InitPlace /\ [][NextPlace]_vars

----------------------------------------------------------------------------
(* Dice and pre-move skills *)

\* a die that can show 0
dice_options_zero(player) ==
    IF SkillType(player) = "dice_2d3" THEN {2, 3}
    ELSE IF variant = "full" /\ SkillType(player) = "stack_dice" THEN {1, 3}
    ELSE {0, 1, 2, 3}

\* the values _roll_dice / roll_dice can return for a token
dice_options(player) ==
    IF SkillType(player) = "dice_2d3" THEN {2, 3}
    ELSE IF variant = "full" /\ SkillType(player) = "stack_dice" THEN {1, 3}
    ELSE {1, 2, 3}

\* FullCharacters.py GameLogic.apply_pre_skills; coin: random.random() < skill['prob']
apply_pre_skills_full(player, b, base_steps, is_first, is_last, coin) ==
    LET type == SkillType(player)
        steps == IF type = "last_move_bonus" /\ is_last THEN base_steps + 2
                 ELSE IF type = "first_move_bonus" /\ is_first THEN base_steps + 2
                 ELSE base_steps
    IN  CASE type = "position_bonus" ->
                 IF is_last_place(b.positions, player) THEN steps + 3 ELSE steps
          [] type = "double_chance" -> IF coin THEN steps * 2 ELSE steps
          [] type = "solo_move" ->
                 IF coin THEN steps + (get_player_stack_size(b.positions, player) - 1)
                 ELSE steps
          [] type = "half_chance" -> IF coin THEN steps + 1 ELSE steps
          [] type = "stack_dice" ->
                 IF get_player_stack_size(b.positions, player) > 1 /\ coin
                 THEN steps + 2 ELSE steps
          [] type = "catch_up" -> IF b.skill_states[player] /\ coin THEN steps + 2 ELSE steps
          [] OTHER -> steps

\* main.py GameVisualization.apply_pre_skills
apply_pre_skills_main(player, b, base_steps, coin) ==
    LET type == SkillType(player)
    IN  IF type = "position_bonus" /\ is_last_place(b.positions, player) THEN base_steps + 3
        ELSE IF type = "double_chance" /\ coin THEN base_steps * 2
        ELSE IF type = "solo_move" /\ coin
        THEN base_steps + (get_player_stack_size(b.positions, player) - 1)
        ELSE base_steps

apply_pre_skills(player, b, base_steps, is_first, is_last, coin) ==
    IF variant = "full"
    THEN apply_pre_skills_full(player, b, base_steps, is_first, is_last, coin)
    ELSE apply_pre_skills_main(player, b, base_steps, coin)

\* _check_solo_move / check_solo_move; coin: its own random.random() < skill['prob']
check_solo_move(player, coin) == SkillType(player) = "solo_move" /\ coin

----------------------------------------------------------------------------
(* Turn order adjustment *)

\* ordered.append(ordered.pop(k))
defer(ordered, k) ==
    Append(SubSeq(ordered, 1, k - 1) \o SubSeq(ordered, k + 1, Len(ordered)), ordered[k])

\* the deferral condition without the test of the token's index in its stack
defers_any_index(base, k, pos, coin) ==
    /\ base[k] = "C"
    /\ SkillType(base[k]) = "late_move"
    /\ find_player_position(pos, base[k]) # NoPos
    /\ coin

\* the condition under which the token at base[k] is deferred
defers(base, k, pos, coin) ==
    /\ base[k] = "C"
    /\ SkillType(base[k]) = "late_move"
    /\ find_player_position(pos, base[k]) # NoPos
    /\ IndexOf(pos[find_player_position(pos, base[k])], base[k]) - 1 > 0
    /\ coin

\* adjust_move_order: the scan over base_order, stopped at the first deferral
RECURSIVE adjust_scan(_, _, _, _)
adjust_scan(base, k, pos, coin) ==
    IF k > Len(base) THEN base
    ELSE IF defers(base, k, pos, coin) THEN defer(base, k)
    ELSE adjust_scan(base, k + 1, pos, coin)

adjust_move_order(base, pos, coin) == adjust_scan(base, 1, pos, coin)

----------------------------------------------------------------------------
(* One turn *)

\* process_turn up to and including move_player, for a given roll
turn_move(b, player, is_first, is_last, dice) ==
    move_player(b, player,
                apply_pre_skills(player, b, dice, is_first, is_last, draws.coin_pre),
                check_solo_move(player, draws.coin_solo))

----------------------------------------------------------------------------
(* The pseudorandom source of a run.  Each token rolls by one rule for the  *)
(* whole run:                                                              *)
(*   "low"    the lowest value of its die,                                  *)
(*   "high"   the highest value of its die,                                 *)
(*   "avoid"  the highest value that does not end the game (the highest     *)
(*            value if every value ends it);                                *)
(* each kind of probability check has one outcome for the whole run, and    *)
(* random.sample returns order0 the first time and order afterwards.        *)

\* whether rolling d would end the game on this turn
ends_game(b, player, is_first, is_last, d) ==
    turn_move(b, player, is_first, is_last, d).winner # None

roll_dice(b, player, is_first, is_last) ==
    LET opts == dice_options(player)
        safe == {d \in opts : ~ends_game(b, player, is_first, is_last, d)}
    IN  CASE draws.rule[player] = "low" -> SetMin(opts)
          [] draws.rule[player] = "high" -> SetMax(opts)
          [] OTHER -> IF safe = {} THEN SetMax(opts) ELSE SetMax(safe)

\* the runs explored: every assignment of low/high rolls to the tokens with every
\* outcome of the probability checks and every pair of orders, and the run in
\* which every token avoids the finish
DrawSources ==
    {d \in [rule : [Range(PLAYERS) -> {"low", "high"}] \cup {[p \in Range(PLAYERS) |-> "avoid"]},
            coin_pre : BOOLEAN, coin_solo : BOOLEAN, coin_post : BOOLEAN,
            coin_defer : BOOLEAN, order0 : Orders, order : Orders] :
        /\ variant = "full" => ~d.coin_solo /\ ~d.coin_post /\ ~d.coin_defer
        /\ variant = "main" => d.order = d.order0
        /\ (\E p \in Range(PLAYERS) : d.rule[p] = "avoid") =>
               /\ variant = "full"
               /\ d.order0 = PLAYERS /\ d.order = PLAYERS /\ ~d.coin_pre}

----------------------------------------------------------------------------
(* run_game and auto_simulate *)

\* a for loop that has no break
round_aborts_never(b) == FALSE

\* if self.board.winner: break
round_aborts(b) == b.winner # None

\* the negated condition of: while not self.board.winner
game_over(b) == b.winner # None

\* a turn whose roll is taken from a source other than the run's draws
process_turn_any_roll(player, is_first, is_last) ==
    \E dice \in dice_options(player) :
    \E steps \in {apply_pre_skills(player, Board, dice, is_first, is_last, draws.coin_pre)} :
    \E is_solo \in {check_solo_move(player, draws.coin_solo)} :
    \E moved \in {move_player(Board, player, steps, is_solo)} :
    \E after \in {apply_post_skills(moved, player, draws.coin_post)} :
        /\ SetBoard(after)
        /\ last' = [op |-> "move", player |-> player, steps |-> steps,
                    dice |-> dice, is_solo |-> is_solo, pre |-> Board]

\* process_turn: the roll, the pre-move skills, move_player, the post-move skills
process_turn(player, is_first, is_last) ==
    \E dice \in {roll_dice(Board, player, is_first, is_last)} :
    \E steps \in {apply_pre_skills(player, Board, dice, is_first, is_last, draws.coin_pre)} :
    \E is_solo \in {check_solo_move(player, draws.coin_solo)} :
    \E moved \in {move_player(Board, player, steps, is_solo)} :
    \E after \in {apply_post_skills(moved, player, draws.coin_post)} :
        /\ SetBoard(after)
        /\ last' = [op |-> "move", player |-> player, steps |-> steps,
                    dice |-> dice, is_solo |-> is_solo, pre |-> Board]

InitGame ==
    /\ variant \in {"full", "main"}
    /\ draws \in DrawSources
    /\ positions = reset.positions
    /\ winner = reset.winner
    /\ total_steps = reset.total_steps
    /\ active_stacks = reset.active_stacks
    /\ skill_states = reset.skill_states
    /\ last = [op |-> "init", player |-> None, steps |-> 0, dice |-> 0, is_solo |-> FALSE,
               pre |-> reset]
    /\ ncalls = 0
    /\ pc = "idle"
    /\ base_order = <<>>
    /\ current_order = <<>>
    /\ i = 0
    /\ turns = <<>>
    /\ win_counts = [p \in Range(PLAYERS) |-> 0]
    /\ total_games = 0

\* run_game up to the while loop (auto_simulate calls it while total_games < max_games)
RunGame ==
    /\ pc = "idle" \/ (pc = "done" /\ total_games < MaxGames)
    /\ SetBoard(new_game(draws.order0))
    /\ base_order' = draws.order0
    /\ current_order' = IF variant = "full"
                        THEN adjust_move_order(draws.order0, reset.positions, draws.coin_defer)
                        ELSE <<>>
    /\ i' = 0
    /\ turns' = <<>>
    /\ last' = [op |-> "reset", player |-> None, steps |-> 0, dice |-> 0, is_solo |-> FALSE,
                pre |-> Board]
    /\ pc' = "while"
    /\ ncalls' = 0
    /\ UNCHANGED <<variant, draws, win_counts, total_games>>

\* while not self.board.winner: build the round's order
StartRound ==
    /\ pc = "while"
    /\ ~game_over(Board)
    /\ base_order' = IF variant = "full" THEN draws.order ELSE base_order
    /\ current_order' = adjust_move_order(base_order', positions, draws.coin_defer)
    /\ i' = 1
    /\ turns' = <<>>
    /\ pc' = "for"
    /\ UNCHANGED <<variant, board_vars, last, ncalls, draws, win_counts, total_games>>

\* one iteration of the for loop that reaches process_turn
ProcessTurn ==
    /\ pc = "for"
    /\ i <= Len(current_order)
    /\ ~round_aborts(Board)
    /\ process_turn(current_order[i], i - 1 = 0, i - 1 = Len(current_order) - 1)
    /\ turns' = Append(turns, current_order[i])
    /\ i' = i + 1
    /\ ncalls' = Min(ncalls + 1, TurnCap)
    /\ UNCHANGED <<variant, pc, base_order, current_order, draws, win_counts,
                   total_games>>

\* the for loop ends: the order is exhausted, or the break on a winner
EndRound ==
    /\ pc = "for"
    /\ i > Len(current_order) \/ round_aborts(Board)
    /\ pc' = "while"
    /\ UNCHANGED <<variant, board_vars, last, ncalls, base_order, current_order, i, turns,
                   draws, win_counts, total_games>>

\* the while loop ends: if self.board.winner, the winner is counted
Finish ==
    /\ pc = "while"
    /\ game_over(Board)
    /\ win_counts' = IF winner # None THEN [win_counts EXCEPT ![winner] = @ + 1]
                      ELSE win_counts
    /\ total_games' = IF winner # None THEN total_games + 1 ELSE total_games
    /\ pc' = "done"
    /\ UNCHANGED <<variant, board_vars, last, ncalls, base_order, current_order, i, turns,
                   draws>>

NextGame == RunGame \/ StartRound \/ ProcessTurn \/ EndRound \/ Finish

\* the game loop is sequential code: it never stops between two steps
SpecGame == InitGame /\ [][NextGame]_vars /\ WF_vars(NextGame)

----------------------------------------------------------------------------
(* Bookkeeping used by the properties *)

\* number of occurrences of token p in stack s
Count(s, p) == Cardinality({k \in DOMAIN s : s[k] = p})

\* the occupied places of a board: the pairs <<cell, index in the cell's stack>>
Places(pos) ==
    UNION {{<<c, k>> : k \in DOMAIN pos[c]} : c \in {d \in DOMAIN pos : pos[d] # <<>>}}

\* number of occurrences of token p on the whole board
Occurrences(pos, p) == Cardinality({x \in Places(pos) : pos[x[1]][x[2]] = p})

\* sum of the cell lengths
TotalLen(pos) == Cardinality(Places(pos))

TypeOK ==
    /\ variant \in {"full", "main"}
    /\ DOMAIN positions = Cells
    /\ winner \in Range(PLAYERS) \cup {None}
    /\ DOMAIN total_steps = Range(PLAYERS)
    /\ DOMAIN active_stacks \subseteq Cells

----------------------------------------------------------------------------
(* Properties of the board, checked under SpecBoard *)

\* the cell that holds token p (the board holds it once)
CellOf(pos, p) == CHOOSE c \in DOMAIN pos : Contains(pos[c], p)

OnBoard(pos, p) == \E c \in DOMAIN pos : Contains(pos[c], p)

\* the last call was move_player, made while no winner was set, for a token on the board
MoveCalled == last.op = "move" /\ last.pre.winner = None /\ OnBoard(last.pre.positions, last.player)

\* a forced-stack record was pending, before the last call, for the cell of the
\* token the call names, and it lists that token
RecordPending ==
    /\ last.op = "move"
    /\ OnBoard(last.pre.positions, last.player)
    /\ CellOf(last.pre.positions, last.player) \in DOMAIN last.pre.active_stacks
    /\ Contains(last.pre.active_stacks[CellOf(last.pre.positions, last.player)], last.player)

\* the last call was a regular move: no winner, no pending record for the token
RegularMove == MoveCalled /\ ~RecordPending

\* C1: occupancy invariant. In both variants, after the initial placement and after
\* any sequence of move_player calls (regular, solo, forced group) and post-move
\* elevations, every token of PLAYERS is in exactly one cell, exactly once, so the
\* cell lengths sum to the number of players.
C1_Occupancy ==
    /\ \A p \in Range(PLAYERS) : Occurrences(positions, p) = 1
    /\ TotalLen(positions) = Len(PLAYERS)

\* a forced group move has just carried a recorded group of at least two tokens
C1_Witness ==
    /\ RecordPending
    /\ last.pre.winner = None
    /\ Len(positions[(CellOf(last.pre.positions, last.player) + last.steps) % GRID_COUNT]) >= 2

\* the sub-stack a regular move of the last call's token relocates, the tokens left
\* below it, and the two cells, all read from the board before the call
SrcCell == CellOf(last.pre.positions, last.player)
DstCell == (SrcCell + last.steps) % GRID_COUNT
SrcStack == last.pre.positions[SrcCell]
Below == SubSeq(SrcStack, 1, IndexOf(SrcStack, last.player) - 1)
SubStack == SubSeq(SrcStack, IndexOf(SrcStack, last.player), Len(SrcStack))
Above == SubSeq(SrcStack, IndexOf(SrcStack, last.player) + 1, Len(SrcStack))

C3_SoloMove ==
    (RegularMove /\ last.is_solo) =>
        /\ \A c \in Cells \ {SrcCell, DstCell} : positions[c] = last.pre.positions[c]
        /\ IF SrcCell # DstCell
           THEN /\ positions[SrcCell] = Below \o Above
                /\ positions[DstCell] = Append(last.pre.positions[DstCell], last.player)
           ELSE positions[SrcCell] = Append(Below \o Above, last.player)

\* the group recorded for the cell of the last call's token
Group == last.pre.active_stacks[SrcCell]

\* what a forced group move does: the recorded group, and nothing else, leaves the
\* source cell and is appended to the destination; the record is removed; no
\* flag changes and no record is created
ForcedEffect ==
    /\ \A c \in Cells \ {SrcCell, DstCell} : positions[c] = last.pre.positions[c]
    /\ IF SrcCell # DstCell
       THEN /\ positions[SrcCell] = Without(SrcStack, Group)
            /\ positions[DstCell] = last.pre.positions[DstCell] \o Group
       ELSE positions[SrcCell] = Without(SrcStack, Group) \o Group
    /\ DOMAIN active_stacks = (DOMAIN last.pre.active_stacks) \ {SrcCell}
    /\ \A c \in DOMAIN active_stacks : active_stacks[c] = last.pre.active_stacks[c]
    /\ skill_states = last.pre.skill_states
    \* the next call for a member is not a forced move any more
    /\ \A m \in Range(Group) :
           ~(\E c \in DOMAIN active_stacks :
                 Contains(positions[c], m) /\ Contains(active_stacks[c], m))

\* C4 as stated: while a record is pending for a cell, the next move_player call for
\* a member of the recorded group located in that cell moves exactly the recorded
\* group by steps cells, whatever is_solo is and without evaluating stack-leadership
\* triggers, and removes the record; the next call for a member is a regular move.
C4_ForcedAlways == RecordPending => ForcedEffect

\* C4 amended: the same, for calls made while no winner is set (a call made after a
\* winner is set changes nothing and leaves the record pending).
C4_ForcedUnlessFrozen == (RecordPending /\ last.pre.winner = None) => ForcedEffect

\* a forced move of a group of at least two tokens was made with is_solo set
C4_Witness ==
    /\ RecordPending
    /\ last.pre.winner = None
    /\ last.is_solo
    /\ Len(Group) >= 2
    /\ SrcCell # DstCell

\* the cells for which the last call created a forced-stack record
NewRecords == (DOMAIN active_stacks) \ (DOMAIN last.pre.active_stacks)

\* C5: stack-leadership trigger. A record is created by the stack-leader token's
\* regular move only when its one-shot flag is unset and the destination cell
\* already held at least 2 tokens before the move arrived; the record then covers
\* the full stack of the destination cell and the flag becomes set.
C5_TriggerOnTwo ==
    (last.op = "move" /\ NewRecords # {}) =>
        /\ RegularMove
        /\ SkillType(last.player) = "stack_leader"
        /\ ~last.pre.skill_states[last.player]
        /\ NewRecords = {DstCell}
        /\ Len(last.pre.positions[DstCell]) >= 2
        /\ active_stacks[DstCell] = positions[DstCell]
        /\ skill_states[last.player]

\* C6: winner freeze. Once winner is set, every later move_player call (any token,
\* any steps, solo or not, with or without a pending record) leaves the cells, the
\* step totals, the records and the flags unchanged, and the winner does not change
\* to another token or back to unset until reset().
C6_WinnerFreeze ==
    (last.pre.winner # None /\ last.op # "reset") =>
        /\ winner = last.pre.winner
        /\ last.op = "move" => Board = last.pre

\* move_player was called, after a winner was set, for a member of a pending record
C6_Witness ==
    /\ RecordPending
    /\ last.pre.winner # None

\* the board is the one run_game sets up: nothing but the starting placement
FreshBoard ==
    /\ winner = None
    /\ \A p \in Range(PLAYERS) : total_steps[p] = 0
    /\ DOMAIN active_stacks = {}
    /\ variant = "full" => \A p \in Range(PLAYERS) : ~skill_states[p]
    /\ TotalLen(positions) = Len(PLAYERS)
    /\ \A p \in Range(PLAYERS) : Occurrences(positions, p) = 1
    /\ IF variant = "full"
       THEN Len(positions[1]) = Len(PLAYERS)
       ELSE /\ positions[0] = <<"A">>
            /\ positions[22] = <<"C", "B">>
            /\ positions[21] = <<"E", "D">>
            /\ positions[20] = <<"F">>

\* C12: reset and no cross-game state. reset() leaves all cells empty, winner unset,
\* every step total 0, every flag false and no forced-stack record; so the board at
\* the start of a game's first round (after reset and placement) does not depend on
\* how the previous game ended: a record still pending or a flag set when the previous
\* game was won is not carried over.
C12_ResetFresh ==
    /\ \E r \in {reset} :
           /\ \A c \in Cells : r.positions[c] = <<>>
           /\ r.winner = None
           /\ \A p \in Range(PLAYERS) : r.total_steps[p] = 0
           /\ DOMAIN r.active_stacks = {}
           /\ variant = "full" => \A p \in Range(PLAYERS) : ~r.skill_states[p]
    /\ last.op = "reset" => FreshBoard

\* a new game was set up after a game that was won with a record still pending, a
\* flag set and step totals above 0
C12_Witness ==
    /\ last.op = "reset"
    /\ last.pre.winner # None
    /\ DOMAIN last.pre.active_stacks # {}
    /\ \E p \in Range(PLAYERS) : last.pre.skill_states[p]
    /\ \E p \in Range(PLAYERS) : last.pre.total_steps[p] > 0

\* C15: win rule of the exact-landing variant (FullCharacters.py). A regular move
\* sets the winner iff its destination cell (source + steps) mod GRID_COUNT is 0; the
\* winner is the token that was moved, not a token carried on top of it; a winning
\* move creates no forced-stack record and sets no one-shot flag; step totals never
\* decide the winner.
C15_ExactLanding ==
    (variant = "full" /\ RegularMove) =>
        /\ winner # None <=> DstCell = 0
        /\ winner # None =>
               /\ winner = last.player
               /\ active_stacks = last.pre.active_stacks
               /\ skill_states = last.pre.skill_states
        /\ (DstCell # 0 /\ total_steps[last.player] >= GRID_COUNT) => winner = None

\* the stack-leader token, its flag unset, has won by landing on cell 0 with tokens
\* carried on top of it
C15_Witness ==
    /\ variant = "full"
    /\ RegularMove
    /\ SkillType(last.player) = "stack_leader"
    /\ ~last.pre.skill_states[last.player]
    /\ ~last.is_solo
    /\ winner = last.player
    /\ Len(positions[0]) >= 2

\* a regular move has brought a step total to GRID_COUNT without landing on cell 0
C15_WitnessTotals ==
    /\ variant = "full"
    /\ RegularMove
    /\ total_steps[last.player] >= GRID_COUNT
    /\ winner = None

\* the last call was a forced group move: a record was pending for the token and no
\* winner was set
ForcedMove == RecordPending /\ last.pre.winner = None

\* C16: forced-group win (FullCharacters.py). When a forced group move lands on cell
\* 0, win is checked for the members in recorded group order, so the winner is the
\* first token of the recorded group (not necessarily the token whose move triggered
\* the forced move) and exactly one winner is set; when it lands on any other cell no
\* winner is set.
C16_ForcedWin ==
    (variant = "full" /\ ForcedMove) =>
        IF DstCell = 0 THEN winner = Group[1] ELSE winner = None

\* a forced move triggered by a token that is not the first of the recorded group
\* has landed on cell 0
C16_Witness ==
    /\ variant = "full"
    /\ ForcedMove
    /\ DstCell = 0
    /\ Len(Group) >= 2
    /\ last.player # Group[1]
    /\ winner = Group[1]

\* the members of the recorded group up to the first one that is in cell 0 after
\* the move, where the win is detected (the whole group when none is)
Credited ==
    LET at0 == {k \in DOMAIN Group : Contains(positions[0], Group[k])}
    IN  IF at0 = {} THEN Group ELSE SubSeq(Group, 1, SetMin(at0))

\* C19: step-total accounting (FullCharacters.py). A regular move increases only the
\* mover's step total, by exactly steps, and leaves the totals of the tokens carried
\* on top of it unchanged; a forced group move increases the step total of every
\* recorded group member by steps, up to the member at which a win is detected; a
\* move_player call for a token not on the board, or made after a winner is set,
\* changes no total.
C19_StepTotals ==
    (variant = "full" /\ last.op = "move") =>
        IF last.pre.winner # None \/ ~OnBoard(last.pre.positions, last.player)
        THEN total_steps = last.pre.total_steps
        ELSE IF RecordPending
        THEN \A p \in Range(PLAYERS) :
                 total_steps[p] = last.pre.total_steps[p]
                                      + (IF Contains(Credited, p) THEN last.steps ELSE 0)
        ELSE /\ total_steps[last.player] = last.pre.total_steps[last.player] + last.steps
             /\ \A p \in Range(PLAYERS) \ {last.player} :
                    total_steps[p] = last.pre.total_steps[p]
             /\ last.is_solo = FALSE => \A k \in DOMAIN Above :
                    /\ Contains(positions[DstCell], Above[k])
                    /\ total_steps[Above[k]] = last.pre.total_steps[Above[k]]

\* a forced move of a group of at least two tokens set no winner and every member
\* got the steps, after a regular move that carried a token
C19_Witness ==
    /\ variant = "full"
    /\ ForcedMove
    /\ Len(Group) >= 2
    /\ winner = None
    /\ \A m \in Range(Group) : total_steps[m] >= last.pre.total_steps[m] + last.steps
    /\ \E p \in Range(PLAYERS) \ Range(Group) : total_steps[p] = 0

\* a regular move carried at least one token on top of the mover
C19_WitnessCarried ==
    /\ variant = "full"
    /\ RegularMove
    /\ ~last.is_solo
    /\ Len(Above) >= 1
    /\ DstCell # 0

\* a forced move whose win was detected at the first of several members
C19_WitnessBreak ==
    /\ variant = "full"
    /\ ForcedMove
    /\ Len(Group) >= 2
    /\ winner = Group[1]
    /\ total_steps[Group[2]] = last.pre.total_steps[Group[2]]

\* a call named a token that is not on the board while no winner was set
C19_WitnessAbsent ==
    /\ variant = "full"
    /\ last.op = "move"
    /\ last.pre.winner = None
    /\ ~OnBoard(last.pre.positions, last.player)
    /\ \E p \in Range(PLAYERS) : total_steps[p] > 0

\* C17: winning move ordering in the step-count variant (main.py). When a move
\* brings the mover's step total to at least GRID_COUNT, the sub-stack is first
\* removed from the source cell and appended to the destination cell and then the
\* mover is marked as winner: in the state where winner is first set, the winner's
\* token is in cell (source + steps) mod GRID_COUNT.
C17_MoveThenWin ==
    (variant = "main" /\ MoveCalled /\ winner # None) =>
        /\ winner = last.player
        /\ Contains(positions[DstCell], last.player)
        /\ DstCell # SrcCell => ~Contains(positions[SrcCell], last.player)

----------------------------------------------------------------------------
(* Properties of the game loop, checked under SpecGame *)

\* C7: termination of the exact-landing variant. A single game of FullCharacters.py
\* run_game always terminates with exactly one winner: for every sequence of turn
\* orders, dice values and skill outcomes the loop eventually reaches a state where
\* winner is set.
C7_Terminates == (variant = "full") => <>(winner # None)

\* C8: is_last_place(T) is true iff no other token on the board is in a cell of
\* strictly smaller index than T's cell (plain comparison, no wraparound); tokens
\* sharing T's cell do not prevent it, so tokens tied at the lowest occupied cell
\* are all in last place at once.
C8_LastPlace ==
    \A T \in Range(PLAYERS) :
        \A cT \in {c \in Cells : Contains(positions[c], T)} :
            is_last_place(positions, T) <=>
                ~\E c \in 0..(cT - 1) : \E q \in Range(positions[c]) : q # T

\* after a turn's move, two tokens tied in the lowest occupied cell are both in last
\* place while a third token, ahead of them, is not
C8_Witness ==
    /\ last.op = "move"
    /\ \E T1, T2, T3 \in Range(PLAYERS) :
           /\ T1 # T2
           /\ CellOf(positions, T1) = CellOf(positions, T2)
           /\ CellOf(positions, T3) > CellOf(positions, T1)
           /\ is_last_place(positions, T1)
           /\ is_last_place(positions, T2)
           /\ ~is_last_place(positions, T3)

\* s is a permutation of all tokens of PLAYERS
IsPermutation(s) ==
    /\ Len(s) = Len(PLAYERS)
    /\ \A p \in Range(PLAYERS) : Count(s, p) = 1

\* a round has been started in the current game
InRound == pc \in {"for", "while", "done"} /\ i >= 1

\* C9: round structure. Every round's turn order is a permutation of all tokens of
\* PLAYERS; tokens take their turns strictly in that order, each at most once per
\* round; and once a turn has set the winner no further turn is processed, in that
\* round or in a later one.
C9_RoundStructure ==
    /\ InRound =>
           /\ IsPermutation(current_order)
           /\ Len(turns) = i - 1
           /\ Len(turns) <= Len(current_order)
           /\ turns = SubSeq(current_order, 1, Len(turns))
           /\ \A p \in Range(PLAYERS) : Count(turns, p) <= 1
    /\ (InRound /\ winner # None) => last.op = "move" /\ last.player = turns[Len(turns)]
    /\ last.op = "move" => last.pre.winner = None

\* a game of the exact-landing variant ended in a round that was aborted before
\* every token had taken its turn
C9_Witness ==
    /\ variant = "full"
    /\ pc = "done"
    /\ winner # None
    /\ Len(turns) >= 1
    /\ Len(turns) < Len(current_order)

\* base with its k-th token removed and appended at the end
MovedToEnd(base, k) ==
    [n \in 1..Len(base) |-> IF n < k THEN base[n]
                            ELSE IF n < Len(base) THEN base[n + 1]
                            ELSE base[k]]

\* the round's order has just been built from base_order on the current board
OrderBuilt == pc = "for" /\ i = 1

\* C10: order deferral. adjust_move_order(base_order) returns a permutation of
\* base_order that is base_order itself or base_order with exactly one token, the
\* order-deferral token, removed and appended at the end, the other tokens keeping
\* their relative order; the deferral happens only when that token is on the board
\* and not at the bottom (index 0) of its cell's stack; at most one deferral is
\* applied per round.
C10_Deferral ==
    OrderBuilt =>
        /\ \A p \in Range(PLAYERS) : Count(current_order, p) = Count(base_order, p)
        /\ \/ current_order = base_order
           \/ \E k \in 1..Len(base_order) :
                  /\ SkillType(base_order[k]) = "late_move"
                  /\ current_order = MovedToEnd(base_order, k)
                  /\ OnBoard(positions, base_order[k])
                  /\ IndexOf(positions[CellOf(positions, base_order[k])], base_order[k]) > 1
        /\ current_order # base_order =>
               \A p \in Range(PLAYERS) :
                   (SkillType(p) = "late_move" /\ OnBoard(positions, p)) =>
                       positions[CellOf(positions, p)][1] # p

\* a round in which the order-deferral token, not first in base_order, was deferred
C10_Witness ==
    /\ OrderBuilt
    /\ current_order # base_order
    /\ current_order[Len(current_order)] = "C"

\* the last step was a turn of the solo-move token, taken while it shared its cell
SoloTokenTurn ==
    /\ pc = "for"
    /\ last.op = "move"
    /\ SkillType(last.player) = "solo_move"
    /\ get_player_stack_size(last.pre.positions, last.player) > 1

\* the (stack size - 1) bonus was added to the roll of the last turn
BonusAdded ==
    last.steps = last.dice + (get_player_stack_size(last.pre.positions, last.player) - 1)

\* C11: solo-move skill coupling. On every turn of the solo-move token the move is
\* executed solo if and only if the (current stack size - 1) bonus was added to its
\* steps on that turn: the skill triggers both effects or neither.
C11_SoloCoupling == SoloTokenTurn => (last.is_solo <=> BonusAdded)

\* the step taken is the only step the loop can take from the current state
OnlySuccessor == \A v \in {vars'} : ~ENABLED (NextGame /\ vars' # v)

GameStarts == pc \in {"idle", "done"} /\ pc' = "while"

\* the step is the turn of the token at position i of the order
TurnTaken == pc = "for" /\ i' = i + 1

\* the cells whose forced-stack record the step created or replaced
Recorded ==
    {c \in DOMAIN active_stacks' :
         c \notin DOMAIN active_stacks \/ active_stacks'[c] # active_stacks[c]}

C20_Step ==
    variant = "full" =>
        \* a flag that is set stays set until the next game starts
        /\ ~GameStarts => \A p \in Range(PLAYERS) : skill_states[p] => skill_states'[p]
        /\ GameStarts => /\ \A p \in Range(PLAYERS) : ~skill_states'[p]
                         /\ DOMAIN active_stacks' = {}
        \* a record is created only on a turn of the stack leader that starts with
        \* its flag clear and sets it, one record at a time
        /\ Recorded # {} =>
               /\ TurnTaken
               /\ SkillType(current_order[i]) = "stack_leader"
               /\ ~skill_states[current_order[i]]
               /\ skill_states'[current_order[i]]
               /\ Cardinality(Recorded) = 1
               /\ DOMAIN active_stacks = {}
        /\ Cardinality(DOMAIN active_stacks') <= 1
        /\ DOMAIN active_stacks' # {} =>
               \E p \in Range(PLAYERS) : SkillType(p) = "stack_leader" /\ skill_states'[p]
        \* the catch-up token moves by its roll, or by its roll plus 2 on a turn that
        \* starts with its flag set
        /\ (TurnTaken /\ SkillType(current_order[i]) = "catch_up") =>
               /\ last'.steps \in {last'.dice, last'.dice + 2}
               /\ last'.steps = last'.dice + 2 => skill_states[current_order[i]]

\* C20: one-shot flags are monotone within a game (FullCharacters.py). A token's
\* skill flag, once set (stack-leader flag by _check_stack_skills, catch-up flag by
\* apply_post_skills when the token is in last place after its move), is never
\* cleared before the next reset(); hence the stack-leader token creates at most one
\* forced-stack record per game, and the catch-up bonus is added in the pre-move
\* phase only on turns that start with the flag already set.
C20_FlagsMonotone == [][C20_Step]_vars

\* the catch-up token has moved by its roll plus 2 on a turn that started with its
\* flag set, in a game where the stack leader's record was created and consumed
C20_Witness ==
    /\ variant = "full"
    /\ pc = "for"
    /\ last.op = "move"
    /\ SkillType(last.player) = "catch_up"
    /\ last.pre.skill_states[last.player]
    /\ last.steps = last.dice + 2
    /\ \E p \in Range(PLAYERS) : SkillType(p) = "stack_leader" /\ skill_states[p]
    /\ DOMAIN active_stacks = {}

\* the stack leader, its flag set, has landed on an occupied cell and no record
\* was created
C20_WitnessNoSecond ==
    /\ variant = "full"
    /\ pc = "for"
    /\ last.op = "move"
    /\ SkillType(last.player) = "stack_leader"
    /\ last.pre.skill_states[last.player]
    /\ last.pre.winner = None
    /\ DOMAIN last.pre.active_stacks = {}
    /\ Len(positions[find_player_position(positions, last.player)]) > 1
    /\ winner = None
    /\ DOMAIN active_stacks = {}

\* the catch-up token's flag was set by the post-move check of its own turn
C20_WitnessSet ==
    /\ variant = "full"
    /\ pc = "for"
    /\ last.op = "move"
    /\ SkillType(last.player) = "catch_up"
    /\ ~last.pre.skill_states[last.player]
    /\ skill_states[last.player]
    /\ last.steps = last.dice

\* the most turns a game of the step-count variant can take: every token at
\* GRID_COUNT - 1 steps, and one more turn
MaxTurnsMain == Len(PLAYERS) * (GRID_COUNT - 1) + 1

\* C18: bounded termination of the step-count variant (main.py run_game). For every
\* choice of initial order, dice values and skill outcomes each processed turn
\* increases the mover's step total by at least 1, so a winner is set after at most
\* 6*22+1 = 133 turns (within 23 rounds); no fairness or probability assumption is
\* needed.
C18_BoundedMain ==
    variant = "main" =>
        /\ (last.op = "move" /\ pc # "idle") =>
               /\ last.steps >= 1
               /\ total_steps[last.player] >= last.pre.total_steps[last.player] + 1
        \* whatever the token whose turn is next rolls, and whatever its skill check
        \* gives, it moves by at least 1 step
        /\ (pc = "for" /\ i <= Len(current_order)) =>
               \A d \in dice_options(current_order[i]), coin \in BOOLEAN :
                   apply_pre_skills(current_order[i], Board, d, FALSE, FALSE, coin) >= 1
        /\ winner = None => \A p \in Range(PLAYERS) : total_steps[p] <= GRID_COUNT - 1
        /\ ncalls <= MaxTurnsMain
        /\ winner = None => ncalls < MaxTurnsMain
        /\ (pc = "for" /\ winner = None) =>
               /\ (ncalls - Len(turns)) % Len(PLAYERS) = 0
               /\ (ncalls - Len(turns)) \div Len(PLAYERS) < GRID_COUNT

\* a game of main.py has ended after more than ten full rounds
C18_Witness ==
    /\ variant = "main"
    /\ pc = "done"
    /\ winner # None
    /\ ncalls > 10 * Len(PLAYERS)

\* every pending record of board b lists the bottom of its cell's stack, in order,
\* and there is at most one
RecordsSound(b) ==
    /\ Cardinality(DOMAIN b.active_stacks) <= 1
    /\ \A c \in DOMAIN b.active_stacks :
           /\ Len(b.active_stacks[c]) >= 2
           /\ Len(b.active_stacks[c]) <= Len(b.positions[c])
           /\ SubSeq(b.positions[c], 1, Len(b.active_stacks[c])) = b.active_stacks[c]
           /\ \A m \in Range(b.active_stacks[c]) : Occurrences(b.positions, m) = 1

\* random.random() decides in check_solo_move only for the solo_move skill
SoloCoins(player) == IF SkillType(player) = "solo_move" THEN BOOLEAN ELSE {FALSE}

\* the boards the turn of the token at position i of the order can produce, for
\* every value of its die and every outcome of its probability checks
TurnOutcomes ==
    {apply_post_skills(
         move_player(Board, current_order[i],
                     apply_pre_skills(current_order[i], Board, d, i - 1 = 0,
                                      i - 1 = Len(current_order) - 1, cpre),
                     check_solo_move(current_order[i], csolo)),
         current_order[i], cpost) :
     d \in dice_options(current_order[i]), cpre \in BOOLEAN,
     csolo \in SoloCoins(current_order[i]), cpost \in PostCoins(current_order[i])}

\* C21: pending forced-stack records (FullCharacters.py, tokens G-L, games driven by
\* run_game). In every reachable state there is at most one pending record, and for
\* a pending record at cell c every token of the recorded group is still located in
\* cell c, occupying the bottom of that cell's stack in recorded order; no group
\* member can leave the cell before the record is consumed, so a forced move never
\* appends a token that is not in the source cell.
C21_RecordsSound ==
    (variant = "full" /\ pc # "idle") =>
        /\ RecordsSound(Board)
        \* whatever the next turn draws, the records stay sound
        /\ (pc = "for" /\ i <= Len(current_order) /\ ~round_aborts(Board)) =>
               \A b \in TurnOutcomes : RecordsSound(b)
        \* the forced move took its group from the source cell
        /\ (last.op = "move" /\ RecordPending /\ last.pre.winner = None) =>
               /\ RecordsSound(last.pre)
               /\ \A m \in Range(Group) : Contains(SrcStack, m)
               /\ \A p \in Range(PLAYERS) : Occurrences(positions, p) = 1
               /\ DstCell # SrcCell =>
                      /\ positions[DstCell] = last.pre.positions[DstCell] \o Group
                      /\ \A m \in Range(Group) : ~Contains(positions[SrcCell], m)

\* a token that is not in the recorded group has landed on the cell of a pending
\* record and sits on top of the group
C21_Witness ==
    /\ variant = "full"
    /\ pc = "for"
    /\ winner = None
    /\ last.op = "move"
    /\ \E c \in DOMAIN active_stacks :
           /\ c \in DOMAIN last.pre.active_stacks
           /\ ~Contains(active_stacks[c], last.player)
           /\ Contains(positions[c], last.player)
           /\ ~Contains(last.pre.positions[c], last.player)
           /\ Len(positions[c]) > Len(active_stacks[c])

\* a member of the recorded group other than the stack leader has moved, with
\* tokens that arrived later on top of the group, and the group moved as recorded
C21_WitnessForced ==
    /\ variant = "full"
    /\ pc = "for"
    /\ last.op = "move"
    /\ RecordPending
    /\ last.pre.winner = None
    /\ SkillType(last.player) # "stack_leader"
    /\ Len(SrcStack) > Len(Group)
    /\ DstCell # SrcCell
    /\ Len(positions[SrcCell]) >= 1

\* on board b the winner is unset exactly when every step total is below
\* GRID_COUNT, and a winner is the only token that has reached GRID_COUNT
WinnerSound(b) ==
    /\ b.winner = None <=> \A p \in Range(PLAYERS) : b.total_steps[p] < GRID_COUNT
    /\ b.winner # None =>
           /\ b.total_steps[b.winner] >= GRID_COUNT
           /\ \A p \in Range(PLAYERS) \ {b.winner} : b.total_steps[p] < GRID_COUNT

\* C22: invariant of the step-count variant (main.py). In every reachable state of a
\* game, winner is unset if and only if every token's step total is below GRID_COUNT;
\* when winner is set, the winner is the token whose turn it was, it is the only
\* token with step total at least GRID_COUNT, and a token carried past or onto cell 0
\* on another token's move never becomes winner by that.
C22_WinnerByTotal ==
    variant = "main" =>
        /\ WinnerSound(Board)
        /\ (winner # None /\ pc # "idle") =>
               /\ last.op = "move"
               /\ last.player = winner
               /\ last.pre.winner = None
               /\ turns # <<>>
               /\ turns[Len(turns)] = winner
        \* whatever the next turn draws, its board is sound and only the token whose
        \* turn it is can become the winner
        /\ (pc = "for" /\ i <= Len(current_order) /\ ~round_aborts(Board)) =>
               \A b \in TurnOutcomes :
                   /\ WinnerSound(b)
                   /\ b.winner \in {None, current_order[i]}
                   /\ \A p \in Range(PLAYERS) \ {current_order[i]} :
                          b.total_steps[p] = total_steps[p]
        \* the tokens carried by the last move gained no step and did not win
        /\ (last.op = "move" /\ pc # "idle" /\ ~last.is_solo) =>
               \A k \in DOMAIN Above :
                   /\ total_steps[Above[k]] = last.pre.total_steps[Above[k]]
                   /\ winner # Above[k]

\* a token was carried from the last cells of the track onto or past cell 0 by
\* another token's move, and no winner was set
C22_Witness ==
    /\ variant = "main"
    /\ pc = "for"
    /\ last.op = "move"
    /\ ~last.is_solo
    /\ Len(Above) >= 1
    /\ DstCell < SrcCell
    /\ Contains(positions[DstCell], Above[1])
    /\ winner = None

\* a token has won on its own turn while carrying a token whose total stayed below
\* GRID_COUNT
C22_WitnessWin ==
    /\ variant = "main"
    /\ pc = "for"
    /\ winner # None
    /\ last.player = winner
    /\ ~last.is_solo
    /\ Len(Above) >= 1
    /\ total_steps[Above[1]] > 0

----------------------------------------------------------------------------
(* Properties of the placement interface, checked under SpecPlace *)

\* C14: placement precondition. add_player(token, cell) for a token that is already
\* somewhere on the board is treated as a fatal condition: it does not produce a
\* board in which the token occurs twice, and the cells are unchanged by the
\* rejected call.
C14_PlacementRejected ==
    /\ \A p \in Range(PLAYERS) : Occurrences(positions, p) <= 1
    /\ (last.op = "add" /\ OnBoard(last.pre.positions, last.player)) =>
           positions = last.pre.positions

====
